---- MODULE Spec2Model ----
(***************************************************************************)
(* Model of src/main.py: the /analyze endpoint of the Korean vocabulary    *)
(* frequency service.  A request runs the external analyzer (mecab) in     *)
(* csv mode, falls back to the custom tab-separated mode, parses the       *)
(* output into tokens, buckets the lemmas into nouns and predicates and    *)
(* returns two frequency lists.                                            *)
(*                                                                         *)
(* A Python str is a sequence of characters; a character is a one-element  *)
(* TLA+ string.  A Hangul syllable is written by its code point, so        *)
(* "U+D558" is the single character HA.                                    *)
(***************************************************************************)
EXTENDS Integers, Sequences, FiniteSets, TLC

(* ------------------------------ bounds -------------------------------- *)
NReq == 2
MaxMinFreq == 2
MaxRows == 2
MaxTokens == 2
MaxWords == 3

(* ---------------------------- characters ------------------------------ *)
h_i == "U+C774"
h_ha == "U+D558"
h_eops == "U+C5C6"
h_iss == "U+C788"
h_bo == "U+BCF4"
h_doe == "U+B418"
h_deul == "U+B4E4"
h_ja == "U+C790"
h_mal == "U+B9D0"
h_o == "U+C624"
h_ga == "U+AC00"
h_ju == "U+C8FC"
h_eo == "U+C5B4"
h_da == "U+B2E4"
h_hak == "U+D559"
h_gyo == "U+AD50"
h_meok == "U+BA39"

\* re.search(r"[U+AC00-U+D7A3]", ...): the syllables of the model's alphabet
HangulSyllables ==
  {h_i, h_ha, h_eops, h_iss, h_bo, h_doe, h_deul, h_ja, h_mal, h_o, h_ga,
   h_ju, h_eo, h_da, h_hak, h_gyo, h_meok}

\* str.strip() with no argument removes these
Whitespace == {" ", "\t", "\n", "\r"}

LowerAlpha == <<"a","b","c","d","e","f","g","h","i","j","k","l","m",
                "n","o","p","q","r","s","t","u","v","w","x","y","z">>
UpperAlpha == <<"A","B","C","D","E","F","G","H","I","J","K","L","M",
                "N","O","P","Q","R","S","T","U","V","W","X","Y","Z">>

Empty == << >>
Star == <<"*">>
EOS == <<"E","O","S">>

(* -------------------------- string helpers ---------------------------- *)
RECURSIVE LStrip(_)
LStrip(s) ==
  IF s = Empty THEN Empty
  ELSE IF Head(s) \in Whitespace THEN LStrip(Tail(s)) ELSE s

RECURSIVE RStrip(_)
RStrip(s) ==
  IF s = Empty THEN Empty
  ELSE IF s[Len(s)] \in Whitespace THEN RStrip(SubSeq(s, 1, Len(s) - 1)) ELSE s

Strip(s) == RStrip(LStrip(s))

StartsWith(s, p) == Len(s) >= Len(p) /\ SubSeq(s, 1, Len(p)) = p

EndsWith(s, p) == Len(s) >= Len(p) /\ SubSeq(s, Len(s) - Len(p) + 1, Len(s)) = p

\* str.upper() on the Latin letters; every other character is unchanged
ToUpper ==
  [c \in {LowerAlpha[i] : i \in 1..26} |->
     UpperAlpha[CHOOSE i \in 1..26 : LowerAlpha[i] = c]]

UpperChar(c) == IF c \in DOMAIN ToUpper THEN ToUpper[c] ELSE c

Upper(s) == [i \in 1..Len(s) |-> UpperChar(s[i])]

HasHangul(s) == \E i \in 1..Len(s) : s[i] \in HangulSyllables

\* str.split(sep) for a one-character sep: always at least one field
RECURSIVE SplitAcc(_, _, _)
SplitAcc(s, sep, cur) ==
  IF s = Empty THEN <<cur>>
  ELSE IF Head(s) = sep THEN <<cur>> \o SplitAcc(Tail(s), sep, Empty)
  ELSE SplitAcc(Tail(s), sep, Append(cur, Head(s)))

Split(s, sep) == SplitAcc(s, sep, Empty)

\* str.splitlines(): line boundaries are not kept, no trailing empty line
RECURSIVE SplitLinesAcc(_, _)
SplitLinesAcc(s, cur) ==
  IF s = Empty THEN (IF cur = Empty THEN << >> ELSE <<cur>>)
  ELSE IF Head(s) = "\r" /\ Len(s) > 1 /\ s[2] = "\n"
       THEN <<cur>> \o SplitLinesAcc(Tail(Tail(s)), Empty)
  ELSE IF Head(s) \in {"\n", "\r"} THEN <<cur>> \o SplitLinesAcc(Tail(s), Empty)
  ELSE SplitLinesAcc(Tail(s), Append(cur, Head(s)))

SplitLines(s) == SplitLinesAcc(s, Empty)

\* csv.reader over unquoted text: one row per line, an empty line is the row []
CsvRow(line) == IF line = Empty THEN << >> ELSE Split(line, ",")

CsvReader(s) == [i \in 1..Len(SplitLines(s)) |-> CsvRow(SplitLines(s)[i])]

(* ----------------------------- constants ------------------------------ *)
\* TextIn.min_freq default
DefaultMinFreq == 5
\* analyze_api calls filter_and_bucket(tokens, min_len=2)
MinLen == 2

STOPWORDS ==
  { <<h_i, h_da>>, <<h_ha, h_da>>, <<h_eops, h_da>>, <<h_iss, h_da>>,
    <<h_bo, h_da>>, <<h_doe, h_da>>, <<h_deul, h_da>>, <<h_ja, h_da>>,
    <<h_mal, h_da>>, <<h_o, h_da>>, <<h_ga, h_da>>, <<h_ju, h_da>>,
    <<h_doe, h_eo, h_da>> }

EXCLUDE_POS_PREFIX ==
  { <<"J">>, <<"E">>, <<"S","F">>, <<"S","P">>, <<"S","S">>, <<"S","E">>,
    <<"S","O">>, <<"S","W">>, <<"X">> }

EXCLUDE_EXACT == { <<"U","N","K","N","O","W","N">> }

NounExact == { <<"N","P">>, <<"N","R">>, <<"S","L">>, <<"S","H">> }

(* ------------------- mecab_parse: the two parsers --------------------- *)
CsvRowKept(row) == row # << >> /\ Strip(row[1]) # Empty

CsvToken(row) ==
  LET surface == Strip(row[1])
  IN [surface |-> surface,
      pos     |-> IF Len(row) > 1 THEN Strip(row[2]) ELSE Empty,
      lemma   |-> IF Len(row) > 7 /\ row[8] # Star THEN Strip(row[8]) ELSE surface]

ParseCsv(raw) ==
  LET rows == SelectSeq(CsvReader(raw), CsvRowKept)
  IN [i \in 1..Len(rows) |-> CsvToken(rows[i])]

TsvLineKept(line) ==
  /\ line # Empty
  /\ line # EOS
  /\ Len(Split(line, "\t")) >= 2
  /\ Strip(Split(line, "\t")[1]) # Empty

TsvToken(line) ==
  LET parts == Split(line, "\t")
      surface == Strip(parts[1])
  IN [surface |-> surface,
      pos     |-> Strip(parts[2]),
      lemma   |-> IF Len(parts) > 2 /\ Strip(parts[3]) # Star
                  THEN Strip(parts[3]) ELSE surface]

ParseTsv(raw) ==
  LET lines == SelectSeq(SplitLines(raw), TsvLineKept)
  IN [i \in 1..Len(lines) |-> TsvToken(lines[i])]

ParseTokens(used, raw) == IF used = "csv" THEN ParseCsv(raw) ELSE ParseTsv(raw)

(* -------------------------- filter_and_bucket ------------------------- *)
\* lemma = (t.get("lemma") or t.get("surface", "")).strip()
TokenLemma(t) == Strip(IF t.lemma # Empty THEN t.lemma ELSE t.surface)

Excluded(pos_u) ==
  pos_u \in EXCLUDE_EXACT \/ \E p \in EXCLUDE_POS_PREFIX : StartsWith(pos_u, p)

IsNoun(pos_u) == StartsWith(pos_u, <<"N","N">>) \/ pos_u \in NounExact

IsPredicate(pos_u) == StartsWith(pos_u, <<"V","V">>) \/ StartsWith(pos_u, <<"V","A">>)

BasicForm(lemma) ==
  IF HasHangul(lemma) /\ ~EndsWith(lemma, <<h_da>>) THEN lemma \o <<h_da>> ELSE lemma

StopAfterNever(basic_form) == FALSE

StopAfter(basic_form) == basic_form \in STOPWORDS

\* what one loop iteration appends: <<bucket, word>> with bucket "" for a skip
ClassifyLemma(lemma, pos_u, min_len) ==
  IF lemma = Empty \/ lemma = Star THEN <<"", Empty>>
  ELSE IF Excluded(pos_u) THEN <<"", Empty>>
  ELSE IF lemma \in STOPWORDS THEN <<"", Empty>>
  ELSE IF IsNoun(pos_u)
       THEN (IF Len(lemma) >= min_len THEN <<"nouns", lemma>> ELSE <<"", Empty>>)
  ELSE IF IsPredicate(pos_u)
       THEN (IF StopAfter(BasicForm(lemma)) THEN <<"", Empty>>
             ELSE IF Len(BasicForm(lemma)) >= min_len
                  THEN <<"v_adj", BasicForm(lemma)>> ELSE <<"", Empty>>)
  ELSE <<"", Empty>>

Classify(t, min_len) == ClassifyLemma(TokenLemma(t), Upper(Strip(t.pos)), min_len)

RECURSIVE Bucket(_, _, _)
Bucket(tokens, min_len, which) ==
  IF tokens = << >> THEN << >>
  ELSE LET c == Classify(Head(tokens), min_len)
       IN (IF c[1] = which THEN <<c[2]>> ELSE << >>)
          \o Bucket(Tail(tokens), min_len, which)

FilterAndBucket(tokens, min_len) ==
  [nouns |-> Bucket(tokens, min_len, "nouns"), v_adj |-> Bucket(tokens, min_len, "v_adj")]

(* ------------------------------ freq_list ----------------------------- *)
\* counter[w] = counter.get(w, 0) + 1, keys in insertion order
CounterAdd(counter, w) ==
  IF \E i \in 1..Len(counter) : counter[i][1] = w
  THEN [i \in 1..Len(counter) |->
          IF counter[i][1] = w THEN <<w, counter[i][2] + 1>> ELSE counter[i]]
  ELSE Append(counter, <<w, 1>>)

RECURSIVE CounterOf(_, _)
CounterOf(words, counter) ==
  IF words = << >> THEN counter
  ELSE CounterOf(Tail(words), CounterAdd(counter, Head(words)))

KeepAbove(c, min_count) == c > min_count

Keep(c, min_count) == c >= min_count

\* sorted(..., key=count, reverse=True) is stable: equal counts keep their order
RECURSIVE InsertDesc(_, _)
InsertDesc(sorted, e) ==
  IF sorted = << >> THEN <<e>>
  ELSE IF Head(sorted)[2] >= e[2] THEN <<Head(sorted)>> \o InsertDesc(Tail(sorted), e)
  ELSE <<e>> \o sorted

RECURSIVE SortedDesc(_, _)
SortedDesc(entries, acc) ==
  IF entries = << >> THEN acc
  ELSE SortedDesc(Tail(entries), InsertDesc(acc, Head(entries)))

freq_list(words, min_count) ==
  LET counter == CounterOf(words, << >>)
      KeepEntry(e) == Keep(e[2], min_count)
  IN SortedDesc(SelectSeq(counter, KeepEntry), << >>)

(* ------------------------------- state -------------------------------- *)
VARIABLES
  pc,        \* where each request is in analyze_api
  text,      \* inp.text
  min_freq,  \* inp.min_freq
  csvProc,   \* proc of _mecab_run_csv: [rc, stdout]
  tsvProc,   \* proc of _mecab_run_tsv
  csvRuns,   \* number of -O csv invocations made for the request
  tsvRuns,   \* number of -F invocations made for the request
  raw,       \* mecab_parse: raw
  used,      \* mecab_parse: used
  tokens,    \* analyze_api: tokens
  nouns,     \* analyze_api: nouns
  v_adj,     \* analyze_api: v_adj
  resp       \* the returned body

vars == <<pc, text, min_freq, csvProc, tsvProc, csvRuns, tsvRuns,
          raw, used, tokens, nouns, v_adj, resp>>

Requests == 1..NReq

NoProc == [rc |-> -1, stdout |-> Empty]
\* no body returned (yet): a count of 0 is in no list freq_list returns
NoResp == [nouns |-> <<<<Empty, 0>>>>, verbs |-> <<<<Empty, 0>>>>]

\* pc "info_blocked" and "run_blocked": the request waits inside
\* subprocess.run for a child that never exits
Finished == {"done", "error"}

(* ------------------- the analyzer, as the environment ----------------- *)
T_school == <<h_hak, h_gyo>>
T_eat == <<h_meok>>

\* the request bodies clients send: (text, min_freq)
Inputs ==
  { [text |-> Empty, min_freq |-> DefaultMinFreq],
    [text |-> T_school, min_freq |-> 1] }

\* one row of "mecab -O csv": the lemma is the 8th column
CsvLine(surface, pos, lemma) ==
  surface \o <<",">> \o pos \o <<",","*",",","*",",","*",",","*",",","*",",">> \o lemma

\* one row of "mecab -F %m\t%f[0]\t%f[6]\n"
TsvLine(surface, pos, lemma) == surface \o <<"\t">> \o pos \o <<"\t">> \o lemma

RECURSIVE JoinLines(_)
JoinLines(lines) ==
  IF lines = << >> THEN Empty ELSE Head(lines) \o <<"\n">> \o JoinLines(Tail(lines))

SeqsUpTo(S, n) == UNION {[1..k -> S] : k \in 0..n}

NNG == <<"N","N","G">>
VV == <<"V","V">>
SL == <<"S","L">>
JKS == <<"J","K","S">>

\* what the child can write in each mode during a request
CsvOutputs ==
  { Empty, <<"\n">>,
    JoinLines(<<CsvLine(T_school, NNG, T_school)>>) }

TsvOutputs ==
  { Empty, <<"\n">>,
    JoinLines(<<TsvLine(T_eat, VV, T_eat), EOS>>) }

\* _run: the CompletedProcess; a child that cannot start is rc 1 with no output
RunResults(outs) ==
  {[rc |-> 0, stdout |-> o] : o \in outs} \cup {[rc |-> 1, stdout |-> Empty]}

(* ---------------------------- the operations -------------------------- *)
RunFailedRcOnly(proc) == proc.rc # 0

RunFailedInverted(proc) == proc.rc # 0 \/ Strip(proc.stdout) # Empty

\* if proc.returncode != 0 or not proc.stdout.strip(): raise RuntimeError
RunFailed(proc) == proc.rc # 0 \/ Strip(proc.stdout) = Empty

\* POST /analyze arrives: mecab_parse calls _mecab_run_csv
AnalyzeApi(r) ==
  /\ pc[r] = "idle"
  /\ \E inp \in Inputs :
       /\ text' = [text EXCEPT ![r] = inp.text]
       /\ min_freq' = [min_freq EXCEPT ![r] = inp.min_freq]
  /\ pc' = [pc EXCEPT ![r] = "csv_info"]
  /\ UNCHANGED <<csvProc, tsvProc, csvRuns, tsvRuns, raw, used, tokens, nouns, v_adj, resp>>

\* _mecab_info: subprocess.run([mecab, -D]) with no timeout.  Its result only
\* selects -d and the encoding; an exception gives the defaults.
MecabInfo(r) ==
  /\ pc[r] \in {"csv_info", "tsv_info"}
  /\ \E exits \in BOOLEAN :
       pc' = [pc EXCEPT ![r] = IF ~exits THEN "info_blocked"
                                ELSE IF pc[r] = "csv_info" THEN "csv_run" ELSE "tsv_run"]
  /\ UNCHANGED <<text, min_freq, csvProc, tsvProc, csvRuns, tsvRuns,
                 raw, used, tokens, nouns, v_adj, resp>>

\* _mecab_run_csv after the probe; on failure mecab_parse's except branch
\* goes on to _mecab_run_tsv
MecabRunCsv(r) ==
  /\ pc[r] = "csv_run"
  /\ csvRuns' = [csvRuns EXCEPT ![r] = @ + 1]
  /\ \/ /\ pc' = [pc EXCEPT ![r] = "run_blocked"]
        /\ UNCHANGED <<csvProc, raw, used>>
     \/ \E proc \in RunResults(CsvOutputs) :
          /\ csvProc' = [csvProc EXCEPT ![r] = proc]
          /\ IF RunFailed(proc)
             THEN /\ pc' = [pc EXCEPT ![r] = "tsv_info"]
                  /\ UNCHANGED <<raw, used>>
             ELSE /\ pc' = [pc EXCEPT ![r] = "parse"]
                  /\ raw' = [raw EXCEPT ![r] = proc.stdout]
                  /\ used' = [used EXCEPT ![r] = "csv"]
  /\ UNCHANGED <<text, min_freq, tsvProc, tsvRuns, tokens, nouns, v_adj, resp>>

\* _mecab_run_tsv after the probe; its RuntimeError leaves mecab_parse and
\* analyze_api uncaught
MecabRunTsv(r) ==
  /\ pc[r] = "tsv_run"
  /\ tsvRuns' = [tsvRuns EXCEPT ![r] = @ + 1]
  /\ \/ /\ pc' = [pc EXCEPT ![r] = "run_blocked"]
        /\ UNCHANGED <<tsvProc, raw, used>>
     \/ \E proc \in RunResults(TsvOutputs) :
          /\ tsvProc' = [tsvProc EXCEPT ![r] = proc]
          /\ IF RunFailed(proc)
             THEN /\ pc' = [pc EXCEPT ![r] = "error"]
                  /\ UNCHANGED <<raw, used>>
             ELSE /\ pc' = [pc EXCEPT ![r] = "parse"]
                  /\ raw' = [raw EXCEPT ![r] = proc.stdout]
                  /\ used' = [used EXCEPT ![r] = "tsv"]
  /\ UNCHANGED <<text, min_freq, csvProc, csvRuns, tokens, nouns, v_adj, resp>>

\* mecab_parse, from "tokens = []" to "return tokens"
Parse(r) ==
  /\ pc[r] = "parse"
  /\ tokens' = [tokens EXCEPT ![r] = ParseTokens(used[r], raw[r])]
  /\ pc' = [pc EXCEPT ![r] = "bucket"]
  /\ UNCHANGED <<text, min_freq, csvProc, tsvProc, csvRuns, tsvRuns, raw, used,
                 nouns, v_adj, resp>>

SharedTokens(r) == tokens[1]

\* analyze_api's local tokens
LocalTokens(r) == tokens[r]

\* nouns, v_adj = filter_and_bucket(tokens, min_len=2)
Classification(r) ==
  /\ pc[r] = "bucket"
  /\ LET b == FilterAndBucket(LocalTokens(r), MinLen)
     IN /\ nouns' = [nouns EXCEPT ![r] = b.nouns]
        /\ v_adj' = [v_adj EXCEPT ![r] = b.v_adj]
  /\ pc' = [pc EXCEPT ![r] = "freq"]
  /\ UNCHANGED <<text, min_freq, csvProc, tsvProc, csvRuns, tsvRuns, raw, used,
                 tokens, resp>>

\* return {"nouns": freq_list(nouns, ...), "verbs": freq_list(v_adj, ...)}
Respond(r) ==
  /\ pc[r] = "freq"
  /\ resp' = [resp EXCEPT ![r] = [nouns |-> freq_list(nouns[r], min_freq[r]),
                                  verbs |-> freq_list(v_adj[r], min_freq[r])]]
  /\ pc' = [pc EXCEPT ![r] = "done"]
  /\ UNCHANGED <<text, min_freq, csvProc, tsvProc, csvRuns, tsvRuns, raw, used,
                 tokens, nouns, v_adj>>

Step(r) ==
  \/ AnalyzeApi(r)
  \/ MecabInfo(r)
  \/ MecabRunCsv(r)
  \/ MecabRunTsv(r)
  \/ Parse(r)
  \/ Classification(r)
  \/ Respond(r)

Init ==
  /\ pc = [r \in Requests |-> "idle"]
  /\ text = [r \in Requests |-> Empty]
  /\ min_freq = [r \in Requests |-> DefaultMinFreq]
  /\ csvProc = [r \in Requests |-> NoProc]
  /\ tsvProc = [r \in Requests |-> NoProc]
  /\ csvRuns = [r \in Requests |-> 0]
  /\ tsvRuns = [r \in Requests |-> 0]
  /\ raw = [r \in Requests |-> Empty]
  /\ used = [r \in Requests |-> "none"]
  /\ tokens = [r \in Requests |-> << >>]
  /\ nouns = [r \in Requests |-> << >>]
  /\ v_adj = [r \in Requests |-> << >>]
  /\ resp = [r \in Requests |-> NoResp]

Next == \E r \in Requests : Step(r)

Spec == Init /\ [][Next]_vars

\* every request thread keeps running while it has a step to take
FairSpec == Spec /\ \A r \in Requests : WF_vars(Step(r))

(* ------------- specifications of the pure pipeline stages ------------- *)
\* Request 1 stands right before a stage, on analyzer output drawn from a
\* bounded set of rows; the other requests have not arrived.
StageInit(at, u, out, m) ==
  /\ pc = [r \in Requests |-> IF r = 1 THEN at ELSE "idle"]
  /\ text = [r \in Requests |-> IF r = 1 THEN T_school ELSE Empty]
  /\ min_freq = [r \in Requests |-> IF r = 1 THEN m ELSE DefaultMinFreq]
  /\ csvProc = [r \in Requests |->
                  IF r # 1 THEN NoProc
                  ELSE IF u = "csv" THEN [rc |-> 0, stdout |-> out]
                  ELSE [rc |-> 1, stdout |-> Empty]]
  /\ tsvProc = [r \in Requests |->
                  IF r = 1 /\ u = "tsv" THEN [rc |-> 0, stdout |-> out] ELSE NoProc]
  /\ csvRuns = [r \in Requests |-> IF r = 1 THEN 1 ELSE 0]
  /\ tsvRuns = [r \in Requests |-> IF r = 1 /\ u = "tsv" THEN 1 ELSE 0]
  /\ raw = [r \in Requests |-> IF r = 1 THEN out ELSE Empty]
  /\ used = [r \in Requests |-> IF r = 1 THEN u ELSE "none"]
  /\ resp = [r \in Requests |-> NoResp]

\* rows for the parsers: surfaces and lemma columns with blanks and asterisks
ParseSurfaces == { <<h_ga>>, <<" ", h_ga>>, <<" ">> }

ParseLemmas ==
  { Empty, <<" ">>, Star, <<" ", "*", " ">>, <<h_ga, h_da>>, <<h_ga, h_da, " ">> }

ParseLines(u) ==
  IF u = "csv"
  THEN {CsvLine(s, NNG, l) : s \in ParseSurfaces, l \in ParseLemmas}
       \cup {s \o <<",">> \o NNG : s \in ParseSurfaces}
       \cup {<<h_ga>>, EOS, Empty}
  ELSE {TsvLine(s, NNG, l) : s \in ParseSurfaces, l \in ParseLemmas}
       \cup {s \o <<"\t">> \o NNG : s \in ParseSurfaces}
       \cup {<<h_ga>>, EOS, Empty}

InitParse ==
  \E u \in {"csv", "tsv"} :
    \E rows \in SeqsUpTo(ParseLines(u), MaxRows) :
      /\ ~RunFailed([rc |-> 0, stdout |-> JoinLines(rows)])
      /\ StageInit("parse", u, JoinLines(rows), DefaultMinFreq)
      /\ tokens = [r \in Requests |-> << >>]
      /\ nouns = [r \in Requests |-> << >>]
      /\ v_adj = [r \in Requests |-> << >>]

NextParse == \E r \in Requests : Parse(r)

SpecParse == InitParse /\ [][NextParse]_vars

\* rows for the classifier: stopwords, stems, Latin text, an empty lemma
\* column, and a row whose surface is its own tag
BucketLemmas ==
  { <<h_ha, h_da>>, <<h_ha>>, T_eat, <<h_meok, h_da>>, T_school, <<"A","B">>, Empty }

BucketTags == { NNG, VV, <<"v","a">>, SL, JKS }

BucketLines ==
  {CsvLine(<<h_ga, h_ga>>, p, l) : p \in BucketTags, l \in BucketLemmas}
  \cup {CsvLine(NNG, NNG, Star)}

InitBucket ==
  \E rows \in SeqsUpTo(BucketLines, MaxTokens) :
    /\ ~RunFailed([rc |-> 0, stdout |-> JoinLines(rows)])
    /\ StageInit("bucket", "csv", JoinLines(rows), 1)
    /\ tokens = [r \in Requests |-> IF r = 1 THEN ParseCsv(JoinLines(rows)) ELSE << >>]
    /\ nouns = [r \in Requests |-> << >>]
    /\ v_adj = [r \in Requests |-> << >>]

NextBucket == \E r \in Requests : Classification(r) \/ Respond(r)

SpecBucket == InitBucket /\ [][NextBucket]_vars

\* rows for the aggregator: a few words, repeated, as nouns and as predicates
FreqWords == { T_school, <<h_ga, h_ga>>, <<h_meok, h_da>> }

FreqLines == {CsvLine(w, p, w) : w \in FreqWords, p \in {NNG, VV}}

InitFreq ==
  \E rows \in SeqsUpTo(FreqLines, MaxWords), m \in 1..MaxMinFreq :
    /\ ~RunFailed([rc |-> 0, stdout |-> JoinLines(rows)])
    /\ StageInit("freq", "csv", JoinLines(rows), m)
    /\ LET toks == ParseCsv(JoinLines(rows))
           b == FilterAndBucket(toks, MinLen)
       IN /\ tokens = [r \in Requests |-> IF r = 1 THEN toks ELSE << >>]
          /\ nouns = [r \in Requests |-> IF r = 1 THEN b.nouns ELSE << >>]
          /\ v_adj = [r \in Requests |-> IF r = 1 THEN b.v_adj ELSE << >>]

NextFreq == \E r \in Requests : Respond(r)

SpecFreq == InitFreq /\ [][NextFreq]_vars

(* ------------------------------ properties ---------------------------- *)
\* the failure test of the specification: non-zero exit status or empty output
ModeFailed(proc) == proc.rc # 0 \/ Strip(proc.stdout) = Empty

OkNoOutput == [rc |-> 0, stdout |-> Empty]

\* C1: a request with empty text, served by a working analyzer that writes
\* nothing for empty input, ends with the success body of two empty lists
\* and not with an error.
C1_EmptyTextSucceeds ==
  \A r \in Requests :
    ( /\ pc[r] \in Finished
      /\ text[r] = Empty
      /\ csvProc[r] = OkNoOutput
      /\ tsvProc[r] \in {NoProc, OkNoOutput} )
    => /\ pc[r] = "done"
       /\ resp[r] = [nouns |-> << >>, verbs |-> << >>]

\* C2: when both analyzer modes have failed for a request, the request is in
\* the error outcome: no token sequence was returned and no success body.
C2_BothFailedIsError ==
  \A r \in Requests :
    ( /\ csvProc[r] # NoProc /\ ModeFailed(csvProc[r])
      /\ tsvProc[r] # NoProc /\ ModeFailed(tsvProc[r]) )
    => /\ pc[r] = "error"
       /\ used[r] = "none"
       /\ tokens[r] = << >>
       /\ resp[r] = NoResp

C2_Witness ==
  \E r \in Requests :
    /\ pc[r] = "error"
    /\ csvProc[r] = [rc |-> 1, stdout |-> Empty]
    /\ tsvProc[r] = OkNoOutput

\* C3: the csv mode runs first and exactly once; the custom-format mode runs
\* only after the csv mode failed, at most once; nothing runs after it.
C3_FallbackOnce ==
  \A r \in Requests :
    /\ csvRuns[r] <= 1
    /\ tsvRuns[r] <= 1
    /\ pc[r] \in {"idle", "csv_info", "csv_run"} => csvRuns[r] = 0 /\ tsvRuns[r] = 0
    /\ pc[r] \in {"tsv_info", "tsv_run", "parse", "bucket", "freq", "done", "error"}
         => csvRuns[r] = 1
    /\ tsvRuns[r] = 1
         => csvRuns[r] = 1 /\ csvProc[r] # NoProc /\ ModeFailed(csvProc[r])
    /\ pc[r] \in {"tsv_info", "tsv_run"} => tsvRuns[r] = 0
    /\ pc[r] = "error" => tsvRuns[r] = 1

C3_Witness ==
  \E r \in Requests :
    /\ pc[r] = "done"
    /\ used[r] = "tsv"
    /\ csvRuns[r] = 1
    /\ tsvRuns[r] = 1

\* C4: every token mecab_parse returns has a non-empty surface and a lemma
\* that is neither empty nor "*"; a row whose lemma column is empty, blank
\* or an asterisk (with or without blanks around it) gets its surface as lemma.
C4_LemmaNeverPlaceholder ==
  \A r \in Requests :
    pc[r] = "bucket" =>
      /\ \A i \in 1..Len(tokens[r]) :
           /\ tokens[r][i].surface # Empty
           /\ tokens[r][i].lemma \notin {Empty, Star}
      /\ used[r] = "csv" =>
           LET rows == SelectSeq(CsvReader(raw[r]), CsvRowKept)
           IN \A i \in 1..Len(rows) :
                (Len(rows[i]) > 7 /\ Strip(rows[i][8]) \in {Empty, Star})
                  => tokens[r][i].lemma = tokens[r][i].surface
      /\ used[r] = "tsv" =>
           LET lines == SelectSeq(SplitLines(raw[r]), TsvLineKept)
           IN \A i \in 1..Len(lines) :
                (Len(Split(lines[i], "\t")) > 2
                   /\ Strip(Split(lines[i], "\t")[3]) \in {Empty, Star})
                  => tokens[r][i].lemma = tokens[r][i].surface

Occurrences(words, w) == Cardinality({i \in 1..Len(words) : words[i] = w})

FreqListOk(words, min_count, out) ==
  /\ \A i \in 1..Len(out) :
       /\ out[i][2] = Occurrences(words, out[i][1])
       /\ out[i][2] >= min_count
  /\ \A i, j \in 1..Len(out) : i # j => out[i][1] # out[j][1]
  /\ \A k \in 1..Len(words) :
       Occurrences(words, words[k]) >= min_count
         => \E i \in 1..Len(out) : out[i][1] = words[k]
  /\ \A i, j \in 1..Len(out) : i < j => out[i][2] >= out[j][2]

\* C5: freq_list returns exactly one entry (w, c) per distinct word whose
\* number of occurrences c is at least min_count, no entry for any other
\* word, and the entries in order of non-increasing count.
C5_FreqList ==
  \A r \in Requests :
    pc[r] = "done" =>
      /\ min_freq[r] >= 1
      /\ FreqListOk(nouns[r], min_freq[r], resp[r].nouns)
      /\ FreqListOk(v_adj[r], min_freq[r], resp[r].verbs)

C5_Witness ==
  \E r \in Requests :
    /\ pc[r] = "done"
    /\ min_freq[r] = 2
    /\ \E k \in 1..Len(nouns[r]) : Occurrences(nouns[r], nouns[r][k]) = 1
    /\ \E i \in 1..Len(resp[r].nouns) : resp[r].nouns[i][2] = 2

C7_AcceptedHasHangul ==
  \A r \in Requests :
    /\ \A i \in 1..Len(nouns[r]) : HasHangul(nouns[r][i])
    /\ \A i \in 1..Len(v_adj[r]) : HasHangul(v_adj[r][i])

\* C8: every lemma in the predicates bucket, and so every entry of the
\* "verbs" list, ends with the suffix DA.
C8_PredicatesEndInDa ==
  \A r \in Requests :
    /\ \A i \in 1..Len(v_adj[r]) : EndsWith(v_adj[r][i], <<h_da>>)
    /\ pc[r] = "done" =>
         \A i \in 1..Len(resp[r].verbs) : EndsWith(resp[r].verbs[i][1], <<h_da>>)

\* C9: every request eventually finishes, with a response or an error, even
\* when an analyzer child never exits.
C9_EveryRequestFinishes == \A r \in Requests : <>(pc[r] \in Finished)

\* the outcome of request r served alone on the same input by an analyzer
\* that behaves the same way
AloneFails(r) == ModeFailed(csvProc[r]) /\ ModeFailed(tsvProc[r])

AloneResponse(r) ==
  LET toks == IF ~ModeFailed(csvProc[r]) THEN ParseCsv(csvProc[r].stdout)
              ELSE ParseTsv(tsvProc[r].stdout)
      b == FilterAndBucket(toks, MinLen)
  IN [nouns |-> freq_list(b.nouns, min_freq[r]),
      verbs |-> freq_list(b.v_adj, min_freq[r])]

\* C10: under any interleaving of concurrent requests, each request's
\* outcome is the one it gets when run alone.
C10_Independent ==
  \A r \in Requests :
    /\ pc[r] = "done" => ~AloneFails(r) /\ resp[r] = AloneResponse(r)
    /\ pc[r] = "error" => AloneFails(r) /\ resp[r] = NoResp

C10_Witness ==
  \E r1, r2 \in Requests :
    /\ pc[r1] = "done"
    /\ pc[r2] = "done"
    /\ tokens[r1] # tokens[r2]
    /\ resp[r1] # resp[r2]
    /\ resp[r2].nouns # << >>

====
